---------------------------- MODULE Spec2Model ----------------------------
(***************************************************************************)
(* aws-start-stop: start or stop one EC2 instance, poll until it reaches   *)
(* the desired state, optionally wait for the SSM agent, all under one     *)
(* overall timeout.  The model follows src/src/main.rs (main, work) and    *)
(* src/src/aws.rs (AwsEc2Client, check_state, AwsSsmClient).               *)
(*                                                                         *)
(* Time is a discrete clock `now` in seconds.  Time passes and the overall *)
(* timer fires only while work() is suspended at an .await; the code       *)
(* between two awaits runs in one step.  The remote service is the         *)
(* environment: every response is drawn from the shapes the SDK types      *)
(* allow, except that the fields the code unwraps (instance state, state   *)
(* change id and state) are always populated, as the EC2 API populates     *)
(* them.                                                                   *)
(***************************************************************************)
EXTENDS Integers, Sequences, FiniteSets, TLC

VARIABLES
    action,        \* config.action
    wait_for_ssm,  \* config.wait_for_ssm
    timeout,       \* config.timeout, seconds
    target_state,  \* AwsEc2Client.target_state
    pc,            \* where the run is
    now,           \* the clock, seconds since main started
    next_tick,     \* deadline of the next tick of the current Interval
    calls,         \* remote calls issued so far, in order
    checks,        \* applications of check_state so far, in order
    last_response, \* the response received last: <<>> or <<response>>
    entered_at,    \* when the current Interval was created (its loop entered)
    wfs_ret,       \* what wait_for_state returned: <<>> or <<Result>>
    ssm_ret,       \* what wait_for_connection returned: <<>> or <<Result>>
    instance,      \* work's `instance`: <<>> or <<Instance>>
    stdout,        \* lines printed so far
    res,           \* what timeout(..., work(config)) resolved to: <<>> or <<Result>>
    exit_code      \* the process's exit status, NoExit while it runs

vars == <<action, wait_for_ssm, timeout, target_state, pc, now, next_tick,
          calls, checks, last_response, entered_at,
          wfs_ret, ssm_ret, instance, stdout, res, exit_code>>

----------------------------------------------------------------------------
(* Bounds and program constants *)

\* the largest overall timeout explored, in seconds
MaxTimeout == 20

\* the clock's resolution: how many seconds one Tick lets pass
TickStep == 5

\* Duration::from_secs(10) handed to AwsEc2Client::new
PollInterval == 10

\* Duration::from_secs(10) of AwsSsmClient.wait
SsmInterval == 10

\* exit_code while the process still runs: no exit status
NoExit == 0 - 1

Timeouts == {0, PollInterval, MaxTimeout}

----------------------------------------------------------------------------
(* Values *)

Ok(v) == [ok |-> TRUE, val |-> v]
Err(e) == [ok |-> FALSE, err |-> e]

Actions == {"Start", "Stop"}

InstanceStateNames ==
    {"pending", "running", "shutting-down", "stopped", "stopping", "terminated"}

InstanceId == "i-1"
InstanceIds == {"i-1", "i-2"}

\* Option<&str>: <<>> is None, <<a>> is Some(a)
unwrap_or(opt, default) == IF opt = <<>> THEN default ELSE opt[1]

\* an instance with no address at all, or with all three
Instances ==
    {[state |-> s, public_ip_address |-> <<>>,
      private_ip_address |-> <<>>, ipv6_address |-> <<>>] : s \in InstanceStateNames}
    \cup {[state |-> s, public_ip_address |-> <<"1.2.3.4">>,
           private_ip_address |-> <<"10.0.0.4">>,
           ipv6_address |-> <<"2001:db8::4">>] : s \in InstanceStateNames}

AnInstance ==
    [state |-> "running", public_ip_address |-> <<>>,
     private_ip_address |-> <<>>, ipv6_address |-> <<>>]

\* what instances a reservation may list: none, one, or two
InstanceVecs == {<<>>} \cup {<<i>> : i \in Instances} \cup {<<AnInstance, AnInstance>>}

\* DescribeInstances: a transport error, or reservations and a next_token
DescribeResponses ==
    {[sent |-> FALSE, reservations |-> <<>>, next_token |-> FALSE]}
    \cup {[sent |-> TRUE, reservations |-> <<>>, next_token |-> t] : t \in BOOLEAN}
    \cup {[sent |-> TRUE, reservations |-> <<v>>, next_token |-> t] :
             v \in InstanceVecs, t \in BOOLEAN}
    \cup {[sent |-> TRUE, reservations |-> <<<<AnInstance>>, <<AnInstance>>>>,
           next_token |-> FALSE]}

InstanceStateChanges == [instance_id : InstanceIds, current_state : InstanceStateNames]

AChange == [instance_id |-> InstanceId, current_state |-> "pending"]

\* a change of another instance, to a state no request accepts
AnotherChange == [instance_id |-> "i-2", current_state |-> "terminated"]

\* StartInstances / StopInstances: a transport error, or the state changes
StateChangeResponses ==
    {[sent |-> FALSE, changes |-> <<>>]}
    \cup {[sent |-> TRUE, changes |-> <<>>]}
    \cup {[sent |-> TRUE, changes |-> <<c>>] : c \in InstanceStateChanges}
    \cup {[sent |-> TRUE, changes |-> <<AChange, AChange>>]}
    \cup {[sent |-> TRUE, changes |-> <<AnotherChange, AnotherChange>>]}

\* GetConnectionStatus: a transport error, or Option<ConnectionStatus>
ConnectionResponses ==
    {[sent |-> FALSE, status |-> <<>>]}
    \cup {[sent |-> TRUE, status |-> s] :
             s \in {<<>>, <<"Connected">>, <<"NotConnected">>, <<"Unknown">>}}

----------------------------------------------------------------------------
(* aws.rs: the pure parts *)

check_state_swapped(current_state, desired_state) ==
    IF desired_state = "running"
    THEN CASE current_state = "pending" -> Ok(TRUE)
           [] current_state = "running" -> Ok(FALSE)
           [] OTHER -> Err(<<"The instance is in an abnormal state",
                             current_state, desired_state>>)
    ELSE IF desired_state = "stopped"
    THEN CASE current_state = "stopping" -> Ok(TRUE)
           [] current_state = "stopped" -> Ok(FALSE)
           [] OTHER -> Err(<<"The instance is in an abnormal state",
                             current_state, desired_state>>)
    ELSE Err(<<"The desired state is invalid", desired_state>>)

check_state_lenient(current_state, desired_state) ==
    IF desired_state = "running"
    THEN CASE current_state = "running" -> Ok(TRUE)
           [] OTHER -> Ok(FALSE)
    ELSE IF desired_state = "stopped"
    THEN CASE current_state = "stopped" -> Ok(TRUE)
           [] OTHER -> Ok(FALSE)
    ELSE IF current_state = desired_state THEN Ok(TRUE) ELSE Ok(FALSE)

check_state(current_state, desired_state) ==
    IF desired_state = "running"
    THEN CASE current_state = "pending" -> Ok(FALSE)
           [] current_state = "running" -> Ok(TRUE)
           [] OTHER -> Err(<<"The instance is in an abnormal state",
                             current_state, desired_state>>)
    ELSE IF desired_state = "stopped"
    THEN CASE current_state = "stopping" -> Ok(FALSE)
           [] current_state = "stopped" -> Ok(TRUE)
           [] OTHER -> Err(<<"The instance is in an abnormal state",
                             current_state, desired_state>>)
    ELSE Err(<<"The desired state is invalid", desired_state>>)

\* next_token is not looked at
get_instance_no_token(response) ==
    IF ~response.sent THEN Err(<<"transport">>)
    ELSE IF Len(response.reservations) = 0 THEN Err(<<"Instance not found">>)
    ELSE IF Len(response.reservations) > 1
    THEN Err(<<"Too many reservations returned">>)
    ELSE LET instance_vec == response.reservations[Len(response.reservations)]
         IN  IF Len(instance_vec) = 0 THEN Err(<<"Instance not found">>)
             ELSE IF Len(instance_vec) > 1 THEN Err(<<"Too many instances returned">>)
             ELSE Ok(instance_vec[Len(instance_vec)])

get_instance(response) ==
    IF ~response.sent THEN Err(<<"transport">>)
    ELSE IF Len(response.reservations) = 0 THEN Err(<<"Instance not found">>)
    ELSE IF Len(response.reservations) > 1 \/ response.next_token
    THEN Err(<<"Too many reservations returned">>)
    ELSE LET instance_vec == response.reservations[Len(response.reservations)]
         IN  IF Len(instance_vec) = 0 THEN Err(<<"Instance not found">>)
             ELSE IF Len(instance_vec) > 1 THEN Err(<<"Too many instances returned">>)
             ELSE Ok(instance_vec[Len(instance_vec)])

\* the resulting state is checked before the identifier
start_instance_state_first(response) ==
    IF ~response.sent THEN Err(<<"transport">>)
    ELSE IF Len(response.changes) = 0 THEN Err(<<"Instance not found">>)
    ELSE IF Len(response.changes) > 1 THEN Err(<<"Too many instances started">>)
    ELSE LET change == response.changes[Len(response.changes)]
         IN  IF change.current_state # "pending" /\ change.current_state # "running"
             THEN Err(<<"Failed to start instance">>)
             ELSE IF change.instance_id # InstanceId THEN Err(<<"Wrong instance started">>)
             ELSE Ok(change.current_state)

\* the state the instance changed to is not looked at
start_instance_any_state(response) ==
    IF ~response.sent THEN Err(<<"transport">>)
    ELSE IF Len(response.changes) = 0 THEN Err(<<"Instance not found">>)
    ELSE IF Len(response.changes) > 1 THEN Err(<<"Too many instances started">>)
    ELSE LET change == response.changes[Len(response.changes)]
         IN  IF change.instance_id # InstanceId THEN Err(<<"Wrong instance started">>)
             ELSE Ok(change.current_state)

start_instance(response) ==
    IF ~response.sent THEN Err(<<"transport">>)
    ELSE IF Len(response.changes) = 0 THEN Err(<<"Instance not found">>)
    ELSE IF Len(response.changes) > 1 THEN Err(<<"Too many instances started">>)
    ELSE LET change == response.changes[Len(response.changes)]
         IN  IF change.instance_id # InstanceId THEN Err(<<"Wrong instance started">>)
             ELSE IF change.current_state # "pending" /\ change.current_state # "running"
             THEN Err(<<"Failed to start instance">>)
             ELSE Ok(change.current_state)

stop_instance(response) ==
    IF ~response.sent THEN Err(<<"transport">>)
    ELSE IF Len(response.changes) = 0 THEN Err(<<"Instance not found">>)
    ELSE IF Len(response.changes) > 1 THEN Err(<<"Too many instances stopped">>)
    ELSE LET change == response.changes[Len(response.changes)]
         IN  IF change.instance_id # InstanceId THEN Err(<<"Wrong instance stopped">>)
             ELSE IF change.current_state # "stopping" /\ change.current_state # "stopped"
             THEN Err(<<"Failed to stop instance">>)
             ELSE Ok(change.current_state)

\* a missing or unknown status is taken as "not connected yet"
get_connection_status_lenient(response) ==
    IF ~response.sent THEN Err(<<"transport">>)
    ELSE IF response.status = <<>> THEN Ok(FALSE)
    ELSE IF response.status[1] = "Connected" THEN Ok(TRUE)
    ELSE Ok(FALSE)

get_connection_status(response) ==
    IF ~response.sent THEN Err(<<"transport">>)
    ELSE IF response.status = <<>> THEN Err(<<"SSM GetConnectionStatus returned nothing">>)
    ELSE IF response.status[1] = "Connected" THEN Ok(TRUE)
    ELSE IF response.status[1] = "NotConnected" THEN Ok(FALSE)
    ELSE Err(<<"SSM GetConnectionStatus returned an unknown status", response.status[1]>>)

\* the loop returns the snapshot as soon as check_state gives no error
wait_for_state_eager(response, target) ==
    LET got == get_instance(response)
    IN  IF ~got.ok THEN <<Err(got.err)>>
        ELSE LET arrived == check_state(got.val.state, target)
             IN  IF ~arrived.ok THEN <<Err(arrived.err)>>
                 ELSE <<Ok(got.val)>>

\* the loop gives up after its second fetch
wait_for_state_capped(response, target) ==
    LET got == get_instance(response)
    IN  IF ~got.ok THEN <<Err(got.err)>>
        ELSE LET arrived == check_state(got.val.state, target)
             IN  IF ~arrived.ok THEN <<Err(arrived.err)>>
                 ELSE IF arrived.val THEN <<Ok(got.val)>>
                 ELSE IF Len(calls) > 2 THEN <<Err(<<"Gave up waiting">>)>>
                 ELSE <<>>

\* one pass of wait_for_state's loop body after the tick, given the response
\* to its describe call: <<r>> when the loop returns r, <<>> when it goes round
wait_for_state_body(response, target) ==
    LET got == get_instance(response)
    IN  IF ~got.ok THEN <<Err(got.err)>>
        ELSE LET arrived == check_state(got.val.state, target)
             IN  IF ~arrived.ok THEN <<Err(arrived.err)>>
                 ELSE IF arrived.val THEN <<Ok(got.val)>>
                 ELSE <<>>

\* a failed query is tried again at the next tick
wait_for_connection_retrying(response) ==
    LET connection_status == get_connection_status(response)
    IN  IF ~connection_status.ok THEN <<>>
        ELSE IF connection_status.val THEN <<Ok("unit")>>
        ELSE <<>>

\* the loop asks once and returns whatever the agent's status is
wait_for_connection_once(response) ==
    LET connection_status == get_connection_status(response)
    IN  IF ~connection_status.ok THEN <<Err(connection_status.err)>>
        ELSE <<Ok("unit")>>

\* one pass of wait_for_connection's loop body after the tick
wait_for_connection_body(response) ==
    LET connection_status == get_connection_status(response)
    IN  IF ~connection_status.ok THEN <<Err(connection_status.err)>>
        ELSE IF connection_status.val THEN <<Ok("unit")>>
        ELSE <<>>

----------------------------------------------------------------------------
(* main.rs: the pure parts *)

desired_state(a) == IF a = "Stop" THEN "stopped" ELSE "running"

\* the two failure arms exchanged
main_exit_swapped(result) ==
    IF ~result.ok THEN 2
    ELSE IF result.val.ok THEN 0
    ELSE 1

\* main's match on the timeout's result: the exit status
main_exit(result) ==
    IF ~result.ok THEN 1
    ELSE IF result.val.ok THEN 0
    ELSE 2

\* main's match on the timeout's result: what it prints
main_print(result) ==
    IF ~result.ok THEN <<<<"Failed to start instance: timeout">>>>
    ELSE IF result.val.ok THEN <<>>
    ELSE <<<<"Failed to start instance:">> \o result.val.err>>

\* the run's report of a started instance
started_report(i) ==
    <<<<"Started instance:">>,
      <<"public IPv4:", unwrap_or(i.public_ip_address, "None")>>,
      <<"private IPv4:", unwrap_or(i.private_ip_address, "None")>>,
      <<"IPv6:", unwrap_or(i.ipv6_address, "None")>>>>

----------------------------------------------------------------------------
(* The call log *)

\* a Result as the log keeps it; v is what an Ok carried
Show(r, v) == IF r.ok THEN <<"Ok", v>> ELSE <<"Err">> \o r.err

InFlight == <<"in flight">>

Issue(op) == Append(calls, [op |-> op, at |-> now, out |-> InFlight])

Complete(out) == [calls EXCEPT ![Len(calls)].out = out]

\* where work() is at an .await
AwaitPoints ==
    {"load_defaults", "action_inflight", "wfs_tick", "wfs_inflight",
     "ssm_tick", "ssm_inflight"}

\* work() is suspended: it awaits an answer, or a tick that is not yet due
\* (a tick that is due completes when polled, and the code runs on)
Suspended ==
    /\ pc \in AwaitPoints
    /\ pc \in {"wfs_tick", "ssm_tick"} => now < next_tick

----------------------------------------------------------------------------
(* The run: main and work *)

Init ==
    /\ action \in Actions
    /\ wait_for_ssm \in BOOLEAN
    /\ timeout \in Timeouts
    /\ target_state = desired_state(action)
    /\ pc = "load_defaults"
    /\ now = 0
    /\ next_tick = 0
    /\ calls = <<>>
    /\ checks = <<>>
    /\ last_response = <<>>
    /\ entered_at = 0
    /\ wfs_ret = <<>>
    /\ ssm_ret = <<>>
    /\ instance = <<>>
    /\ stdout = <<>>
    /\ res = <<>>
    /\ exit_code = NoExit

\* work() returns r: the timeout future resolves to Ok(r)
WorkReturns(r) ==
    /\ res' = <<Ok(r)>>
    /\ pc' = "main_match"

\* aws_config::load_defaults(...).await completes; the client is built
LoadDefaults ==
    /\ pc = "load_defaults"
    /\ pc' = "request_action"
    /\ UNCHANGED <<action, wait_for_ssm, timeout, target_state, now, next_tick,
                   calls, checks, wfs_ret, ssm_ret, instance, stdout, res, exit_code>>
    /\ UNCHANGED <<last_response, entered_at>>

\* match config.action: print, then send the start or the stop request
RequestAction ==
    /\ pc = "request_action"
    /\ IF action = "Start"
       THEN /\ stdout' = Append(stdout, <<"Starting instance...">>)
            /\ calls' = Issue("start_instances")
       ELSE /\ stdout' = Append(stdout, <<"Stopping instance...">>)
            /\ calls' = Issue("stop_instances")
    /\ pc' = "action_inflight"
    /\ UNCHANGED <<action, wait_for_ssm, timeout, target_state, now, next_tick,
                   checks, wfs_ret, ssm_ret, instance, res, exit_code>>
    /\ UNCHANGED <<last_response, entered_at>>

\* the request's result is dropped instead of propagated with `?`
ActionResponse_unchecked ==
    /\ pc = "action_inflight"
    /\ \E response \in StateChangeResponses :
          /\ last_response' = <<response>>
          /\ LET r == IF action = "Start" THEN start_instance(response)
                      ELSE stop_instance(response)
             IN  calls' = Complete(Show(r, IF r.ok THEN r.val ELSE ""))
    /\ pc' = "wfs_tick"
    /\ next_tick' = now
    /\ entered_at' = now
    /\ UNCHANGED <<action, wait_for_ssm, timeout, target_state, now, res,
                   checks, wfs_ret, ssm_ret, instance, stdout, exit_code>>

\* the request's response arrives: start_instance / stop_instance finish, `?`
\* is applied, and on Ok wait_for_state is entered and creates its Interval
ActionResponse ==
    /\ pc = "action_inflight"
    /\ \E response \in StateChangeResponses :
          /\ last_response' = <<response>>
          /\ LET r == IF action = "Start" THEN start_instance(response)
                      ELSE stop_instance(response)
             IN  /\ calls' = Complete(Show(r, IF r.ok THEN r.val ELSE ""))
                 /\ IF r.ok
                    THEN /\ pc' = "wfs_tick"
                         /\ next_tick' = now
                         /\ entered_at' = now
                         /\ UNCHANGED res
                    ELSE /\ WorkReturns(Err(r.err))
                         /\ UNCHANGED <<next_tick, entered_at>>
    /\ UNCHANGED <<action, wait_for_ssm, timeout, target_state, now,
                   checks, wfs_ret, ssm_ret, instance, stdout, exit_code>>

\* the loop does not await the tick
WfsTick_no_wait ==
    /\ pc = "wfs_tick"
    /\ next_tick' = next_tick + PollInterval
    /\ calls' = Issue("describe_instances")
    /\ pc' = "wfs_inflight"
    /\ UNCHANGED <<action, wait_for_ssm, timeout, target_state, now,
                   checks, wfs_ret, ssm_ret, instance, stdout, res, exit_code>>
    /\ UNCHANGED <<last_response, entered_at>>

\* wait_interval.tick().await completes and get_instance sends its request
WfsTick ==
    /\ pc = "wfs_tick"
    /\ now >= next_tick
    /\ next_tick' = next_tick + PollInterval
    /\ calls' = Issue("describe_instances")
    /\ pc' = "wfs_inflight"
    /\ UNCHANGED <<action, wait_for_ssm, timeout, target_state, now,
                   checks, wfs_ret, ssm_ret, instance, stdout, res, exit_code>>
    /\ UNCHANGED <<last_response, entered_at>>

\* the describe response arrives: get_instance and check_state decide whether
\* wait_for_state returns or goes round again
WfsResponse ==
    /\ pc = "wfs_inflight"
    /\ \E response \in DescribeResponses :
          /\ last_response' = <<response>>
          /\ LET got == get_instance(response)
                 r == wait_for_state_body(response, target_state)
             IN  /\ calls' = Complete(IF got.ok
                                      THEN <<"Ok", got.val.state,
                                             unwrap_or(got.val.public_ip_address, "None")>>
                                      ELSE Show(got, ""))
                 /\ checks' = IF got.ok
                              THEN Append(checks,
                                       [current |-> got.val.state, desired |-> target_state,
                                        result |-> check_state(got.val.state, target_state)])
                              ELSE checks
                 /\ wfs_ret' = r
                 /\ pc' = IF r = <<>> THEN "wfs_tick" ELSE "wfs_returned"
    /\ UNCHANGED <<action, wait_for_ssm, timeout, target_state, now, next_tick,
                   ssm_ret, instance, stdout, res, exit_code>>
    /\ UNCHANGED entered_at

\* the agent wait is entered whenever the flag is set, whatever the action
WorkAfterWait_any_action ==
    /\ pc = "wfs_returned"
    /\ LET r == wfs_ret[1]
       IN  IF ~r.ok
           THEN /\ WorkReturns(Err(r.err))
                /\ UNCHANGED <<instance, stdout, next_tick, entered_at>>
           ELSE /\ instance' = <<r.val>>
                /\ IF wait_for_ssm
                   THEN /\ stdout' = Append(stdout, <<"Waiting for connection to SSM...">>)
                        /\ next_tick' = now
                        /\ entered_at' = now
                        /\ pc' = "ssm_tick"
                        /\ UNCHANGED res
                   ELSE /\ stdout' = IF action = "Start"
                                     THEN stdout \o started_report(r.val)
                                     ELSE Append(stdout, <<"stopped instance">>)
                        /\ WorkReturns(Ok("unit"))
                        /\ UNCHANGED <<next_tick, entered_at>>
    /\ UNCHANGED <<action, wait_for_ssm, timeout, target_state, now,
                   calls, checks, wfs_ret, ssm_ret, exit_code>>
    /\ UNCHANGED last_response

\* a failed wait_for_state is printed like a failed agent wait, and work goes on
WorkAfterWait_downgraded ==
    /\ pc = "wfs_returned"
    /\ LET r == wfs_ret[1]
       IN  /\ instance' = IF r.ok THEN <<r.val>> ELSE <<AnInstance>>
           /\ stdout' = (IF r.ok THEN stdout
                         ELSE Append(stdout, <<"Failed to wait for the instance:">> \o r.err))
                        \o (IF action = "Start" THEN started_report(instance'[1])
                            ELSE <<<<"stopped instance">>>>)
    /\ WorkReturns(Ok("unit"))
    /\ UNCHANGED <<action, wait_for_ssm, timeout, target_state, now, next_tick,
                   calls, checks, wfs_ret, ssm_ret, exit_code>>
    /\ UNCHANGED <<last_response, entered_at>>

\* work after wait_for_state returned: `?`, then either the agent wait is
\* entered (its Interval created) or the report is printed and work returns
WorkAfterWait ==
    /\ pc = "wfs_returned"
    /\ LET r == wfs_ret[1]
       IN  IF ~r.ok
           THEN /\ WorkReturns(Err(r.err))
                /\ UNCHANGED <<instance, stdout, next_tick, entered_at>>
           ELSE /\ instance' = <<r.val>>
                /\ IF action = "Start"
                   THEN IF wait_for_ssm
                        THEN /\ stdout' = Append(stdout, <<"Waiting for connection to SSM...">>)
                             /\ next_tick' = now
                             /\ entered_at' = now
                             /\ pc' = "ssm_tick"
                             /\ UNCHANGED res
                        ELSE /\ stdout' = stdout \o started_report(r.val)
                             /\ WorkReturns(Ok("unit"))
                             /\ UNCHANGED <<next_tick, entered_at>>
                   ELSE /\ stdout' = Append(stdout, <<"stopped instance">>)
                        /\ WorkReturns(Ok("unit"))
                        /\ UNCHANGED <<next_tick, entered_at>>
    /\ UNCHANGED <<action, wait_for_ssm, timeout, target_state, now,
                   calls, checks, wfs_ret, ssm_ret, exit_code>>
    /\ UNCHANGED last_response

\* wait_for_connection: the tick completes and the status query is sent
SsmTick ==
    /\ pc = "ssm_tick"
    /\ now >= next_tick
    /\ next_tick' = next_tick + SsmInterval
    /\ calls' = Issue("get_connection_status")
    /\ pc' = "ssm_inflight"
    /\ UNCHANGED <<action, wait_for_ssm, timeout, target_state, now,
                   checks, wfs_ret, ssm_ret, instance, stdout, res, exit_code>>
    /\ UNCHANGED <<last_response, entered_at>>

\* the status response arrives: wait_for_connection returns or goes round
SsmResponse ==
    /\ pc = "ssm_inflight"
    /\ \E response \in ConnectionResponses :
          /\ last_response' = <<response>>
          /\ LET got == get_connection_status(response)
                 r == wait_for_connection_body(response)
             IN  /\ calls' = Complete(Show(got, IF got.ok /\ got.val THEN "Connected"
                                                ELSE "NotConnected"))
                 /\ ssm_ret' = r
                 /\ pc' = IF r = <<>> THEN "ssm_tick" ELSE "ssm_returned"
    /\ UNCHANGED <<action, wait_for_ssm, timeout, target_state, now, next_tick,
                   checks, wfs_ret, instance, stdout, res, exit_code>>
    /\ UNCHANGED entered_at

\* the agent wait's error is propagated with `?`
WorkAfterSsm_propagated ==
    /\ pc = "ssm_returned"
    /\ LET r == ssm_ret[1]
       IN  IF ~r.ok
           THEN /\ WorkReturns(Err(r.err))
                /\ UNCHANGED stdout
           ELSE /\ stdout' = stdout \o started_report(instance[1])
                /\ WorkReturns(Ok("unit"))
    /\ UNCHANGED <<action, wait_for_ssm, timeout, target_state, now, next_tick,
                   calls, checks, wfs_ret, ssm_ret, instance, exit_code>>
    /\ UNCHANGED <<last_response, entered_at>>

\* work after wait_for_connection returned: an Err is printed, not propagated;
\* then the report is printed and work returns Ok
WorkAfterSsm ==
    /\ pc = "ssm_returned"
    /\ LET r == ssm_ret[1]
       IN  stdout' = (IF ~r.ok
                      THEN Append(stdout, <<"Failed to retrieve SSM connection status:">> \o r.err)
                      ELSE stdout)
                     \o started_report(instance[1])
    /\ WorkReturns(Ok("unit"))
    /\ UNCHANGED <<action, wait_for_ssm, timeout, target_state, now, next_tick,
                   calls, checks, wfs_ret, ssm_ret, instance, exit_code>>
    /\ UNCHANGED <<last_response, entered_at>>

\* the duration is taken in milliseconds: the timer is due a thousand times sooner
TimeoutElapsed_millis ==
    /\ Suspended
    /\ now * 1000 >= timeout
    /\ res' = <<Err(<<"Elapsed">>)>>
    /\ pc' = "main_match"
    /\ UNCHANGED <<action, wait_for_ssm, timeout, target_state, now, next_tick,
                   calls, checks, wfs_ret, ssm_ret, instance, stdout, exit_code>>
    /\ UNCHANGED <<last_response, entered_at>>

\* the overall timer fires while work() is suspended: work is dropped and the
\* timeout future resolves to Err(Elapsed)
TimeoutElapsed ==
    /\ Suspended
    /\ now >= timeout
    /\ res' = <<Err(<<"Elapsed">>)>>
    /\ pc' = "main_match"
    /\ UNCHANGED <<action, wait_for_ssm, timeout, target_state, now, next_tick,
                   calls, checks, wfs_ret, ssm_ret, instance, stdout, exit_code>>
    /\ UNCHANGED <<last_response, entered_at>>

\* main's match on res: print, exit(1), exit(2) or return Ok(())
MainMatch ==
    /\ pc = "main_match"
    /\ stdout' = stdout \o main_print(res[1])
    /\ exit_code' = main_exit(res[1])
    /\ pc' = "exited"
    /\ UNCHANGED <<action, wait_for_ssm, timeout, target_state, now, next_tick,
                   calls, checks, wfs_ret, ssm_ret, instance, res>>
    /\ UNCHANGED <<last_response, entered_at>>

\* time passes while work() is suspended and the timer has not expired
Tick ==
    /\ Suspended
    /\ now < timeout
    /\ now' = now + TickStep
    /\ UNCHANGED <<action, wait_for_ssm, timeout, target_state, pc, next_tick,
                   calls, checks, wfs_ret, ssm_ret, instance, stdout, res, exit_code>>
    /\ UNCHANGED <<last_response, entered_at>>

Next ==
    \/ LoadDefaults
    \/ RequestAction
    \/ ActionResponse
    \/ WfsTick
    \/ WfsResponse
    \/ WorkAfterWait
    \/ SsmTick
    \/ SsmResponse
    \/ WorkAfterSsm
    \/ TimeoutElapsed
    \/ MainMatch
    \/ Tick

Spec == Init /\ [][Next]_vars

\* What the runtime guarantees: time passes, a timer that is due fires (the
\* overall one and the Intervals'), and code that is not suspended runs on.
\* Nothing makes a remote call, or load_defaults, answer.
FairSpec ==
    /\ Spec
    /\ WF_vars(Tick)
    /\ WF_vars(TimeoutElapsed)
    /\ WF_vars(WfsTick)
    /\ WF_vars(SsmTick)
    /\ WF_vars(RequestAction)
    /\ WF_vars(WorkAfterWait)
    /\ WF_vars(WorkAfterSsm)
    /\ WF_vars(MainMatch)

----------------------------------------------------------------------------
(* AwsEc2Client on its own: a client built by AwsEc2Client::new with any   *)
(* target_state, whose wait_for_state is called at time 0 and watched for  *)
(* MaxTimeout seconds with no overall timer.  check_state is applied to    *)
(* every pair of states here, which main's two targets do not allow.       *)

ClientInit ==
    /\ action = "Start"
    /\ wait_for_ssm = FALSE
    /\ timeout = MaxTimeout
    /\ target_state \in InstanceStateNames
    /\ pc = "wfs_tick"
    /\ now = 0
    /\ next_tick = 0
    /\ calls = <<>>
    /\ checks = <<>>
    /\ last_response = <<>>
    /\ entered_at = 0
    /\ wfs_ret = <<>>
    /\ ssm_ret = <<>>
    /\ instance = <<>>
    /\ stdout = <<>>
    /\ res = <<>>
    /\ exit_code = NoExit

ClientNext ==
    \/ WfsTick
    \/ WfsResponse
    \/ Tick

ClientSpec == ClientInit /\ [][ClientNext]_vars

----------------------------------------------------------------------------
(* What the claims speak of *)

Elapsed == res # <<>> /\ ~res[1].ok
WorkReturnedOk == res # <<>> /\ res[1].ok /\ res[1].val.ok
WorkReturnedErr == res # <<>> /\ res[1].ok /\ ~res[1].val.ok

Printed(line) == \E i \in DOMAIN stdout : stdout[i] = line
PrintedHead(word) == \E i \in DOMAIN stdout : stdout[i][1] = word

SuccessSummary == PrintedHead("Started instance:") \/ PrintedHead("stopped instance")

Ops(op) == {i \in DOMAIN calls : calls[i].op = op}
ActionCalls == Ops("start_instances") \cup Ops("stop_instances")
Fetches == Ops("describe_instances")
AgentQueries == Ops("get_connection_status")

Failed(i) == calls[i].out[1] = "Err"
Done(i) == calls[i].out # InFlight

----------------------------------------------------------------------------
(* C1: every run ends with exit 0, 1 or 2: exit 0 exactly when work()      *)
(* returned Ok before the timer fired, exit 1 exactly when the timer fired *)
(* before work() completed, exit 2 exactly when work() returned an error   *)
(* before the timer fired; the timeout message goes with exit 1 only.      *)
C1_ExitCodes ==
    /\ exit_code \in {NoExit, 0, 1, 2}
    /\ (pc = "exited") <=> (exit_code # NoExit)
    /\ (exit_code = 0) <=> (pc = "exited" /\ WorkReturnedOk)
    /\ (exit_code = 1) <=> (pc = "exited" /\ Elapsed)
    /\ (exit_code = 2) <=> (pc = "exited" /\ WorkReturnedErr)
    /\ Printed(<<"Failed to start instance: timeout">>) <=> (exit_code = 1)
    /\ (exit_code = 2) => stdout[Len(stdout)][1] = "Failed to start instance:"

\* the timer fired while a describe call was in flight, and the run exited 1
C1_Witness ==
    /\ exit_code = 1
    /\ Fetches # {}
    /\ calls[Len(calls)].out = InFlight

----------------------------------------------------------------------------
(* C2: in a Start run whose start request is accepted and whose every      *)
(* fetch returns Pending, wait_for_state never returns (neither arrival    *)
(* nor an error), nothing but the timer ends the run, and the run does end *)
(* with exit 1.                                                            *)
StartAlwaysPending ==
    /\ action = "Start"
    /\ \A i \in ActionCalls : Done(i) => ~Failed(i)
    /\ \A i \in Fetches : Done(i) => (~Failed(i) /\ calls[i].out[2] = "pending")

C2_PendingUntilTimeout ==
    /\ [](StartAlwaysPending =>
            /\ wfs_ret = <<>>
            /\ res # <<>> => Elapsed
            /\ exit_code \in {NoExit, 1})
    /\ <>(~StartAlwaysPending \/ exit_code = 1)

\* three fetches answered Pending, then the timeout
C2_Witness ==
    /\ StartAlwaysPending
    /\ Cardinality({i \in Fetches : Done(i)}) >= 3
    /\ exit_code = 1

----------------------------------------------------------------------------
(* C3: the remote operations come one at a time and in the order request,  *)
(* instance poll, agent poll: the request is the first call; a describe    *)
(* call is issued only after the request succeeded; an agent query only    *)
(* after wait_for_state returned a snapshot in the desired state; and no   *)
(* describe call follows an agent query.                                   *)
C3_StrictOrder ==
    /\ \A i \in DOMAIN calls : i < Len(calls) => Done(i)
    /\ ActionCalls \subseteq {1}
    /\ \A i \in Fetches : \E j \in ActionCalls : j < i /\ Done(j) /\ ~Failed(j)
    /\ \A i \in AgentQueries :
          /\ wfs_ret # <<>> /\ wfs_ret[1].ok /\ wfs_ret[1].val.state = target_state
          /\ \E j \in Fetches : j < i /\ calls[j].out[1] = "Ok"
                                /\ calls[j].out[2] = target_state
          /\ \A j \in Fetches : j < i

\* two describe calls, then two agent queries
C3_Witness ==
    /\ Cardinality(Fetches) >= 2
    /\ Cardinality(AgentQueries) >= 2

----------------------------------------------------------------------------
(* C4: in a Start run with wait_for_ssm set whose wait_for_state returned  *)
(* a running snapshot, an error from wait_for_connection is printed as a   *)
(* warning and work still prints the started instance and returns Ok: the  *)
(* run exits 0, never 2.                                                   *)
AgentWaitFailed == ssm_ret # <<>> /\ ~ssm_ret[1].ok

C4_AgentErrorIsWarning ==
    AgentWaitFailed =>
        /\ pc \in {"ssm_returned", "main_match", "exited"}
        /\ pc # "ssm_returned" =>
              /\ WorkReturnedOk
              /\ Printed(<<"Failed to retrieve SSM connection status:">> \o ssm_ret[1].err)
              /\ \E i \in DOMAIN stdout :
                    /\ stdout[i][1] = "Failed to retrieve SSM connection status:"
                    /\ SubSeq(stdout, i + 1, Len(stdout)) = started_report(wfs_ret[1].val)
        /\ pc = "exited" => exit_code = 0
        /\ exit_code \in {NoExit, 0}

\* the agent query failed in transport and the run exited
C4_Witness ==
    /\ action = "Start" /\ wait_for_ssm
    /\ wfs_ret # <<>> /\ wfs_ret[1].ok /\ wfs_ret[1].val.state = "running"
    /\ ssm_ret = <<Err(<<"transport">>)>>
    /\ pc = "exited"

----------------------------------------------------------------------------
(* C5: an error of the start/stop request or of wait_for_state (a failed   *)
(* fetch, a response of the wrong shape, an abnormal state) ends the run   *)
(* with a failure: the failing call is the last remote call, no success    *)
(* summary is printed, work returns that error and the run exits 2.        *)
InstancePathError ==
    \/ \E i \in ActionCalls \cup Fetches : Failed(i)
    \/ wfs_ret # <<>> /\ ~wfs_ret[1].ok

C5_InstanceErrorAborts ==
    InstancePathError =>
        /\ AgentQueries = {}
        /\ Done(Len(calls))
        /\ \A i \in DOMAIN calls : Failed(i) => i = Len(calls)
        /\ ~SuccessSummary
        /\ pc \in {"wfs_returned", "main_match", "exited"}
        /\ pc # "wfs_returned" => WorkReturnedErr
        /\ pc = "exited" => exit_code = 2
        /\ exit_code \in {NoExit, 2}

\* the second fetch saw an abnormal state and the run exited
C5_Witness ==
    /\ Cardinality(Fetches) = 2
    /\ wfs_ret # <<>> /\ ~wfs_ret[1].ok
    /\ wfs_ret[1].err[1] = "The instance is in an abnormal state"
    /\ pc = "exited"

----------------------------------------------------------------------------
(* C6: an agent query is issued only in a Start run with wait_for_ssm set: *)
(* a Stop run, and a Start run without the flag, make none.                *)
C6_AgentOnlyOnStartWithFlag ==
    /\ AgentQueries # {} => (action = "Start" /\ wait_for_ssm)
    /\ pc \in {"ssm_tick", "ssm_inflight", "ssm_returned"} =>
          (action = "Start" /\ wait_for_ssm)
    /\ (action = "Stop" \/ ~wait_for_ssm) => ssm_ret = <<>>

\* a Stop run with the flag set that succeeded
C6_Witness ==
    /\ action = "Stop" /\ wait_for_ssm
    /\ exit_code = 0

----------------------------------------------------------------------------
(* C7: for a desired state of Running or Stopped, check_state gives for    *)
(* every current state the outcome of the table: desired Running: Pending  *)
(* in progress (Ok(false)), Running arrived (Ok(true)), anything else      *)
(* abnormal (Err); desired Stopped: Stopping in progress, Stopped arrived, *)
(* anything else abnormal.                                                 *)
Outcome(r, current, desired) ==
    IF r.ok THEN (IF r.val THEN "Arrived" ELSE "InProgress")
    ELSE IF r.err = <<"The instance is in an abnormal state", current, desired>>
    THEN "Abnormal"
    ELSE IF r.err = <<"The desired state is invalid", desired>>
    THEN "ConfigurationError"
    ELSE "Other"

Table ==
    [desired \in {"running", "stopped"} |->
        [current \in InstanceStateNames |->
            IF desired = "running"
            THEN (IF current = "pending" THEN "InProgress"
                  ELSE IF current = "running" THEN "Arrived" ELSE "Abnormal")
            ELSE (IF current = "stopping" THEN "InProgress"
                  ELSE IF current = "stopped" THEN "Arrived" ELSE "Abnormal")]]

C7_ClassifierTable ==
    /\ \A i \in DOMAIN checks :
          checks[i].desired \in {"running", "stopped"} =>
              Outcome(checks[i].result, checks[i].current, checks[i].desired)
                  = Table[checks[i].desired][checks[i].current]
    /\ \A desired \in {"running", "stopped"}, current \in InstanceStateNames :
          Outcome(check_state(current, desired), current, desired)
              = Table[desired][current]

\* a Terminated instance was classified against desired Stopped
C7_Witness ==
    \E i \in DOMAIN checks :
        /\ checks[i].current = "terminated"
        /\ checks[i].desired = "stopped"
        /\ ~checks[i].result.ok

----------------------------------------------------------------------------
(* C8: for a desired state other than Running and Stopped, check_state     *)
(* returns the invalid-desired-state error whatever the current state is,  *)
(* also when the current state equals the desired one.                     *)
C8_InvalidDesired ==
    /\ \A i \in DOMAIN checks :
          checks[i].desired \notin {"running", "stopped"} =>
              Outcome(checks[i].result, checks[i].current, checks[i].desired)
                  = "ConfigurationError"
    /\ \A desired \in InstanceStateNames \ {"running", "stopped"},
          current \in InstanceStateNames :
          Outcome(check_state(current, desired), current, desired)
              = "ConfigurationError"

\* a Pending instance was classified against desired Pending
C8_Witness ==
    \E i \in DOMAIN checks :
        /\ checks[i].current = "pending"
        /\ checks[i].desired = "pending"
        /\ ~checks[i].result.ok

----------------------------------------------------------------------------
(* C9: when the fetches observe k-1 in-progress states and then the        *)
(* desired state, wait_for_state returns the k-th snapshot after exactly k *)
(* fetches: it has not returned while every observation was in progress,   *)
(* and no fetch follows the one that observed the desired state.           *)
Observed(i) == IF Done(i) /\ ~Failed(i) THEN calls[i].out[2] ELSE "none"

InProgressOf(desired) == IF desired = "running" THEN "pending" ELSE "stopping"

C9_ReturnsAtArrival ==
    target_state \in {"running", "stopped"} =>
        /\ (\A i \in Fetches : Observed(i) = InProgressOf(target_state) \/ ~Done(i)) =>
              (wfs_ret = <<>> /\ pc \in {"wfs_tick", "wfs_inflight"})
        /\ \A k \in Fetches :
              Observed(k) = target_state =>
                  /\ k = Len(calls)
                  /\ \A i \in 1..(k - 1) : Observed(i) = InProgressOf(target_state)
                  /\ pc = "wfs_returned"
                  /\ wfs_ret # <<>> /\ wfs_ret[1].ok
                  /\ wfs_ret[1].val.state = calls[k].out[2]
                  /\ unwrap_or(wfs_ret[1].val.public_ip_address, "None") = calls[k].out[3]

\* Pending, Pending, Running with desired Running: returned after 3 fetches
C9_Witness ==
    /\ target_state = "running"
    /\ Len(calls) = 3
    /\ Observed(1) = "pending" /\ Observed(2) = "pending" /\ Observed(3) = "running"
    /\ calls[2].out[3] # calls[3].out[3]
    /\ wfs_ret # <<>> /\ wfs_ret[1].ok

----------------------------------------------------------------------------
(* C10: wait_for_state stops at the first observation that is abnormal for *)
(* the desired state, and at the first failed fetch, returning that error: *)
(* no fetch and no wait follows it.                                        *)
AbnormalAt(i) ==
    /\ target_state \in {"running", "stopped"}
    /\ Observed(i) # "none"
    /\ Table[target_state][Observed(i)] = "Abnormal"

C10_StopsAtAbnormal ==
    \A i \in Fetches :
        (AbnormalAt(i) \/ (Done(i) /\ Failed(i))) =>
            /\ i = Len(calls)
            /\ pc = "wfs_returned"
            /\ wfs_ret # <<>> /\ ~wfs_ret[1].ok
            /\ AbnormalAt(i) =>
                  wfs_ret[1].err = <<"The instance is in an abnormal state",
                                     Observed(i), target_state>>
            /\ Failed(i) => <<"Err">> \o wfs_ret[1].err = calls[i].out

\* Pending, Stopped with desired Running: the error after 2 fetches
C10_Witness ==
    /\ target_state = "running"
    /\ Len(calls) = 2
    /\ Observed(1) = "pending" /\ Observed(2) = "stopped"
    /\ wfs_ret = <<Err(<<"The instance is in an abnormal state", "stopped", "running">>)>>

----------------------------------------------------------------------------
(* C11: start_instance returns a state only for a response with exactly   *)
(* one state change, of the requested instance, to Pending or Running;     *)
(* otherwise it fails, the checks coming in this order: no change (not     *)
(* found), more than one (ambiguous), another identifier (identity         *)
(* mismatch), another state (unexpected state).  stop_instance is the same *)
(* with Stopping and Stopped.                                              *)
Claimed(response, accepted) ==
    IF ~response.sent THEN "TransportError"
    ELSE IF Len(response.changes) = 0 THEN "NotFound"
    ELSE IF Len(response.changes) > 1 THEN "AmbiguousResult"
    ELSE IF response.changes[1].instance_id # InstanceId THEN "IdentityMismatch"
    ELSE IF response.changes[1].current_state \notin accepted THEN "UnexpectedState"
    ELSE response.changes[1].current_state

\* a logged result of start_instance / stop_instance in the claim's words
Returned(out) ==
    IF out[1] = "Ok" THEN out[2]
    ELSE IF out[2] = "transport" THEN "TransportError"
    ELSE IF out[2] = "Instance not found" THEN "NotFound"
    ELSE IF out[2] \in {"Too many instances started", "Too many instances stopped"}
    THEN "AmbiguousResult"
    ELSE IF out[2] \in {"Wrong instance started", "Wrong instance stopped"}
    THEN "IdentityMismatch"
    ELSE IF out[2] \in {"Failed to start instance", "Failed to stop instance"}
    THEN "UnexpectedState"
    ELSE "Other"

C11_RequestValidation ==
    /\ \A response \in StateChangeResponses :
          /\ Returned(Show(start_instance(response),
                           IF start_instance(response).ok
                           THEN start_instance(response).val ELSE ""))
                = Claimed(response, {"pending", "running"})
          /\ Returned(Show(stop_instance(response),
                           IF stop_instance(response).ok
                           THEN stop_instance(response).val ELSE ""))
                = Claimed(response, {"stopping", "stopped"})
    /\ (Len(calls) = 1 /\ Done(1)) =>
          Returned(calls[1].out)
              = Claimed(last_response[1],
                        IF action = "Start" THEN {"pending", "running"}
                        ELSE {"stopping", "stopped"})

\* the start request answered with one change, of another instance, to Stopped
C11_Witness ==
    /\ action = "Start"
    /\ Len(calls) = 1 /\ Done(1)
    /\ last_response[1].changes = <<[instance_id |-> "i-2", current_state |-> "stopped"]>>
    /\ Returned(calls[1].out) = "IdentityMismatch"

----------------------------------------------------------------------------
(* C12, as claimed: in wait_for_state and in wait_for_connection the first *)
(* fetch comes only one full interval after the loop was entered, and      *)
(* every fetch comes one interval after the one before it.                 *)
AgentWaitBegun == Printed(<<"Waiting for connection to SSM...">>)

\* the calls of the loop entered last, and its interval
LoopCalls == IF AgentWaitBegun THEN AgentQueries ELSE Fetches
Interval == IF AgentWaitBegun THEN SsmInterval ELSE PollInterval
Nth(i) == Cardinality({j \in LoopCalls : j <= i})

C12_WaitBeforeEveryFetch ==
    \A i \in LoopCalls :
        /\ Nth(i) = 1 => calls[i].at >= entered_at + Interval
        /\ \A j \in LoopCalls : j < i => calls[i].at >= calls[j].at + Interval

(* C12, amended: the first fetch is issued the moment the loop is entered  *)
(* (the Interval's first tick completes at once), and the k-th fetch is    *)
(* issued no earlier than k-1 intervals after the loop was entered.        *)
C12_FirstFetchAtOnce ==
    /\ \A i \in LoopCalls :
          /\ Nth(i) = 1 => calls[i].at = entered_at
          /\ calls[i].at >= entered_at + (Nth(i) - 1) * Interval
    /\ (pc \in {"wfs_tick", "ssm_tick"} /\ LoopCalls = {}) => now = entered_at

\* the agent wait was entered after time 0 and has made two queries
C12_Witness ==
    /\ AgentWaitBegun
    /\ entered_at > 0
    /\ Cardinality(AgentQueries) = 2

----------------------------------------------------------------------------
(* C13, as claimed: with a desired state other than Running and Stopped    *)
(* wait_for_state returns the invalid-desired-state error without having   *)
(* made any describe call.                                                 *)
InvalidDesired == target_state \notin {"running", "stopped"}

ReturnedInvalidDesired ==
    /\ wfs_ret # <<>>
    /\ ~wfs_ret[1].ok
    /\ wfs_ret[1].err = <<"The desired state is invalid", target_state>>

C13_FailsBeforePolling ==
    (InvalidDesired /\ ReturnedInvalidDesired) => Fetches = {}

(* C13, amended: with such a desired state the error comes from the        *)
(* classification of the first snapshot: wait_for_state returns it when    *)
(* its first describe call has returned a snapshot, and at no other point; *)
(* a first call that fails returns the fetch's error instead, and no       *)
(* second call is made.                                                    *)
C13_FailsAtFirstSnapshot ==
    InvalidDesired =>
        /\ Len(calls) <= 1
        /\ Fetches = {} => wfs_ret = <<>>
        /\ (Fetches # {} /\ ~Done(1)) => wfs_ret = <<>>
        /\ (Fetches # {} /\ Done(1) /\ ~Failed(1)) => ReturnedInvalidDesired
        /\ (Fetches # {} /\ Done(1) /\ Failed(1)) =>
              (wfs_ret # <<>> /\ <<"Err">> \o wfs_ret[1].err = calls[1].out)

\* desired Terminated: the error came after a describe call that saw Running
C13_Witness ==
    /\ target_state = "terminated"
    /\ Len(calls) = 1
    /\ Observed(1) = "running"
    /\ ReturnedInvalidDesired

----------------------------------------------------------------------------
(* C14: nothing is retried: a run makes at most one start or stop request, *)
(* the one of its action, and a remote call that failed is the last call   *)
(* of its step: the request's failure ends work, a failed fetch ends       *)
(* wait_for_state, a failed agent query ends wait_for_connection.          *)
C14_NoRetry ==
    /\ Cardinality(ActionCalls) <= 1
    /\ action = "Start" => Ops("stop_instances") = {}
    /\ action = "Stop" => Ops("start_instances") = {}
    /\ \A i \in DOMAIN calls :
          Failed(i) =>
              /\ i = Len(calls)
              /\ i \in ActionCalls => WorkReturnedErr
              /\ i \in Fetches => (wfs_ret # <<>> /\ ~wfs_ret[1].ok)
              /\ i \in AgentQueries => (ssm_ret # <<>> /\ ~ssm_ret[1].ok)
              /\ pc \in {"wfs_returned", "ssm_returned", "main_match", "exited"}

\* the second agent query failed and the run went on to exit
C14_Witness ==
    /\ Cardinality(AgentQueries) = 2
    /\ Failed(Len(calls))
    /\ pc = "exited"

----------------------------------------------------------------------------
(* C15, as claimed: get_instance returns a snapshot exactly when the       *)
(* response holds one reservation with one instance; it fails with not     *)
(* found for no reservation or a single reservation with no instance, and  *)
(* with an ambiguous result for more than one reservation or instance; the *)
(* error ends the poll.                                                    *)
LastIsFetch == Len(calls) >= 1 /\ Len(calls) \in Fetches /\ Done(Len(calls))

\* the logged result of get_instance, in the claim's words
Fetched(out) ==
    IF out[1] = "Ok" THEN "Snapshot"
    ELSE IF out[2] = "transport" THEN "TransportError"
    ELSE IF out[2] = "Instance not found" THEN "NotFound"
    ELSE IF out[2] \in {"Too many reservations returned", "Too many instances returned"}
    THEN "AmbiguousResult"
    ELSE "Other"

ClaimedShape(response) ==
    IF ~response.sent THEN "TransportError"
    ELSE IF Len(response.reservations) = 0 THEN "NotFound"
    ELSE IF Len(response.reservations) > 1 THEN "AmbiguousResult"
    ELSE IF Len(response.reservations[1]) = 0 THEN "NotFound"
    ELSE IF Len(response.reservations[1]) > 1 THEN "AmbiguousResult"
    ELSE "Snapshot"

EndsThePoll ==
    Failed(Len(calls)) =>
        /\ pc = "wfs_returned"
        /\ wfs_ret # <<>> /\ ~wfs_ret[1].ok
        /\ <<"Err">> \o wfs_ret[1].err = calls[Len(calls)].out

C15_OneReservationOneInstance ==
    LastIsFetch =>
        /\ Fetched(calls[Len(calls)].out) = ClaimedShape(last_response[1])
        /\ EndsThePoll

(* C15, amended: a snapshot is returned exactly when the response holds    *)
(* one reservation with one instance and no next_token; a response with    *)
(* reservations and a next_token fails with an ambiguous result, whatever  *)
(* its single reservation holds.  The rest is as claimed.                  *)
AmendedShape(response) ==
    IF response.sent /\ Len(response.reservations) >= 1 /\ response.next_token
    THEN "AmbiguousResult"
    ELSE ClaimedShape(response)

C15_AndNoNextToken ==
    /\ LastIsFetch =>
          /\ Fetched(calls[Len(calls)].out) = AmendedShape(last_response[1])
          /\ EndsThePoll
          /\ ~Failed(Len(calls)) =>
                /\ checks # <<>>
                /\ checks[Len(checks)].current = last_response[1].reservations[1][1].state
    /\ \A response \in DescribeResponses :
          /\ Fetched(Show(get_instance(response), "")) = AmendedShape(response)
          /\ get_instance(response).ok =>
                get_instance(response).val = response.reservations[1][1]

\* one reservation with one instance and a next_token: an error, not a snapshot
C15_Witness ==
    /\ LastIsFetch
    /\ last_response[1].sent
    /\ Len(last_response[1].reservations) = 1
    /\ Len(last_response[1].reservations[1]) = 1
    /\ last_response[1].next_token
    /\ Fetched(calls[Len(calls)].out) = "AmbiguousResult"
    /\ pc = "wfs_returned"

----------------------------------------------------------------------------
(* C16: when the timer fires, the step in flight is dropped and the run    *)
(* ends with the timeout outcome: from then on no remote call is issued or *)
(* answered and no summary is printed.  The timer fires only once the      *)
(* timeout has passed, and it is the only thing that cancels: a run ends   *)
(* without work() having returned only through it, and a run suspended    *)
(* past its timeout does end.                                              *)
RunOver == pc \in {"main_match", "exited"}

C16_TimeoutCancels ==
    /\ [](Elapsed =>
            /\ now >= timeout
            /\ RunOver
            /\ ~SuccessSummary
            /\ exit_code \in {NoExit, 1})
    /\ [](RunOver => (Elapsed \/ WorkReturnedOk \/ WorkReturnedErr))
    /\ []((RunOver /\ ~Elapsed) => \A i \in DOMAIN calls : Done(i))
    /\ [][Elapsed => (calls' = calls /\ Elapsed' /\ RunOver'
                      /\ SubSeq(stdout', 1, Len(stdout)) = stdout)]_vars
    /\ ((Suspended /\ now >= timeout) ~> RunOver)

\* the timer fired with an agent query in flight, after the timeout
C16_Witness ==
    /\ Elapsed
    /\ timeout > 0
    /\ AgentQueries # {}
    /\ calls[Len(calls)].out = InFlight
    /\ exit_code = 1

----------------------------------------------------------------------------
(* C17: wait_for_connection makes one status query per interval.  It       *)
(* returns Ok at the first Connected observation and an Err at the first   *)
(* failed query, in both cases with no further query, and it goes round    *)
(* after every NotConnected observation.  A response without a status, or  *)
(* with a status that is neither Connected nor NotConnected, is a failed   *)
(* query, never a NotConnected observation.                                *)
LastQuery == CHOOSE i \in AgentQueries : \A j \in AgentQueries : j <= i

\* the status response that answered the last query
Answer == last_response[1]

C17_AgentWaiter ==
    /\ \A i \in AgentQueries :
          /\ calls[i].at >= entered_at + (Nth(i) - 1) * SsmInterval
          /\ i # LastQuery => Observed(i) = "NotConnected"
          /\ Observed(i) = "Connected" =>
                /\ i = Len(calls)
                /\ ssm_ret = <<Ok("unit")>>
          /\ (Done(i) /\ Failed(i)) =>
                /\ i = Len(calls)
                /\ ssm_ret = <<Err(Tail(calls[i].out))>>
          /\ (i = LastQuery /\ Observed(i) = "NotConnected") =>
                /\ ssm_ret = <<>>
                /\ pc = "ssm_tick" \/ Elapsed
    /\ (AgentQueries # {} /\ Done(LastQuery)) =>
          /\ Answer \in ConnectionResponses
          /\ (Answer.sent /\ Answer.status \notin {<<"Connected">>, <<"NotConnected">>}) =>
                /\ Failed(LastQuery)
                /\ ssm_ret # <<>>
                /\ ~ssm_ret[1].ok
          /\ ~Answer.sent => Failed(LastQuery)
          /\ Answer.status = <<"Connected">> <=> Observed(LastQuery) = "Connected"
          /\ Answer.status = <<"NotConnected">> <=> Observed(LastQuery) = "NotConnected"
    /\ (ssm_ret # <<>>) => (AgentQueries # {} /\ Done(LastQuery))

\* a NotConnected observation was followed by a query answered with an
\* unrecognised status, which ended the wait with an error
C17_Witness ==
    /\ Cardinality(AgentQueries) = 2
    /\ Done(LastQuery)
    /\ Answer.sent
    /\ Answer.status = <<"Unknown">>
    /\ ssm_ret # <<>>
    /\ ~ssm_ret[1].ok

----------------------------------------------------------------------------
(* C18: a run exits with 0 only after the desired state was observed: the  *)
(* start/stop request was accepted, the last describe call of the run      *)
(* returned an instance in the desired state (running for Start, stopped   *)
(* for Stop), and the addresses reported for Start are those of that very  *)
(* instance: no describe call follows the agent wait.                      *)
LastFetch == CHOOSE i \in Fetches : \A j \in Fetches : j <= i

\* the last lines of the output, as many as the started report has
ReportLines == SubSeq(stdout, Len(stdout) - 3, Len(stdout))

C18_SuccessAfterObserved ==
    exit_code = 0 =>
        /\ ActionCalls # {}
        /\ \A i \in ActionCalls : Done(i) /\ ~Failed(i)
        /\ Fetches # {}
        /\ Observed(LastFetch) = desired_state(action)
        /\ \A i \in AgentQueries : i > LastFetch
        /\ wfs_ret # <<>>
        /\ wfs_ret[1].ok
        /\ wfs_ret[1].val.state = Observed(LastFetch)
        /\ unwrap_or(wfs_ret[1].val.public_ip_address, "None") = calls[LastFetch].out[3]
        /\ last_response # <<>>
        /\ AgentQueries = {} => get_instance(last_response[1]) = wfs_ret[1]
        /\ instance = <<wfs_ret[1].val>>
        /\ action = "Start" =>
              /\ Len(stdout) >= 4
              /\ ReportLines = started_report(wfs_ret[1].val)
              /\ Printed(<<"public IPv4:", calls[LastFetch].out[3]>>)
        /\ action = "Stop" => stdout[Len(stdout)] = <<"stopped instance">>

\* a Start run with an agent wait exited with 0 after several fetches,
\* reporting the addresses of the instance of the last fetch
C18_Witness ==
    /\ exit_code = 0
    /\ action = "Start"
    /\ AgentQueries # {}
    /\ Cardinality(Fetches) >= 2
    /\ calls[LastFetch].out[3] # "None"

----------------------------------------------------------------------------
(* C19: in a Start run with the agent wait enabled, once the instance was  *)
(* seen running and as long as every answered agent query said             *)
(* NotConnected, the agent wait has not returned, no started-instance      *)
(* summary is printed and the exit code is not 0; if the agent keeps       *)
(* answering so, the run ends with exit code 1 through the timer, at or    *)
(* after the timeout.  Such a run exits with 0 only if the agent wait      *)
(* returned, with Connected or with an error.                              *)
NeverConnected ==
    /\ action = "Start"
    /\ wait_for_ssm
    /\ wfs_ret # <<>>
    /\ wfs_ret[1].ok
    /\ \A i \in AgentQueries : Done(i) => Observed(i) = "NotConnected"

C19_NeverConnectedTimesOut ==
    /\ [](NeverConnected =>
            /\ ssm_ret = <<>>
            /\ ~SuccessSummary
            /\ exit_code \in {NoExit, 1}
            /\ exit_code = 1 => (Elapsed /\ now >= timeout))
    /\ (NeverConnected ~> (~NeverConnected \/ exit_code = 1))
    /\ []((action = "Start" /\ wait_for_ssm /\ exit_code = 0) =>
            /\ ssm_ret # <<>>
            /\ AgentQueries # {}
            /\ Done(LastQuery)
            /\ Observed(LastQuery) # "NotConnected")

\* the agent answered NotConnected twice and the run ended with exit code 1
C19_Witness ==
    /\ NeverConnected
    /\ Cardinality(AgentQueries) >= 2
    /\ \A i \in AgentQueries : Done(i)
    /\ exit_code = 1

----------------------------------------------------------------------------
(* C20: the states a request accepts agree with check_state.  A start      *)
(* request succeeds exactly on pending and running, a stop request exactly *)
(* on stopping and stopped, and check_state gives no error for any of      *)
(* these against the matching desired state.  So when the first describe   *)
(* call of a run observes the state the accepted request reported, its     *)
(* check_state result is not an error.                                     *)
ChangeTo(s) == [sent |-> TRUE,
                changes |-> <<[instance_id |-> InstanceId, current_state |-> s]>>]

FirstFetch == CHOOSE i \in Fetches : \A j \in Fetches : i <= j

C20_AcceptedAgreesWithClassifier ==
    /\ \A s \in InstanceStateNames :
          /\ start_instance(ChangeTo(s)).ok <=> s \in {"pending", "running"}
          /\ stop_instance(ChangeTo(s)).ok <=> s \in {"stopping", "stopped"}
          /\ start_instance(ChangeTo(s)).ok => check_state(s, desired_state("Start")).ok
          /\ stop_instance(ChangeTo(s)).ok => check_state(s, desired_state("Stop")).ok
    /\ (Len(calls) = 1 /\ Done(1) /\ ~Failed(1)) =>
          /\ last_response = <<ChangeTo(calls[1].out[2])>>
          /\ check_state(calls[1].out[2], target_state).ok
    /\ Fetches # {} =>
          /\ ActionCalls = {1}
          /\ ~Failed(1)
          /\ Observed(FirstFetch) = calls[1].out[2] =>
                /\ checks # <<>>
                /\ checks[1].current = calls[1].out[2]
                /\ checks[1].desired = desired_state(action)
                /\ checks[1].result.ok

\* the request was accepted with the instance in progress and the first
\* describe call saw it in that same state: the loop went round
C20_Witness ==
    /\ Fetches # {}
    /\ Observed(FirstFetch) = calls[1].out[2]
    /\ checks # <<>>
    /\ checks[1].result = Ok(FALSE)
    /\ pc = "wfs_tick"

=============================================================================
